---- MODULE Spec2Model ----
(***************************************************************************)
(* Verification model of Akkiraj1234/cute_app.                             *)
(*                                                                         *)
(*   Spec      the SceneManager (src/src/__main__.py) driven by arbitrary  *)
(*             register / switch_to / go_back calls.                       *)
(*   SpecApp   the App frame loop (_run_frame, start) over the three       *)
(*             registered scenes, with the scenes' click handlers.         *)
(*   SpecGame  the Game scene (src/src/game.py): maze generation, exit     *)
(*             search, input, update and cleanup.                          *)
(***************************************************************************)
EXTENDS Integers, Sequences, FiniteSets, TLC

VARIABLES
    \* ---- SceneManager (src/src/__main__.py:31-35) ----
    registry,        \* _registry: name -> scene class
    instances,       \* _instances: name -> scene object (index into scenes)
    history,         \* _history: list of scene names
    current_scene,   \* current_scene: scene object or None
    scenes,          \* the Scene objects constructed so far, in order of construction
    factory_calls,   \* name -> number of times _registry[name](manager=self) ran
    calls,           \* the calls made on the manager so far
    last,            \* outcome of the most recent call
    \* ---- App (src/src/__main__.py:123-182) ----
    is_running,      \* App.is_running
    app_pc,          \* position of App.start
    events,          \* the polled events _run_frame's for loop has not reached yet
    frame,           \* the calls _run_frame has dispatched in the running frame
    frames,          \* number of frames run
    close_calls,     \* number of close_all() calls
    \* ---- Game (src/src/game.py) ----
    cols, rows,      \* Game.cols, Game.rows
    grid,            \* Game.grid (maze while it is being generated)
    exit_xy,         \* (Game.exit_x, Game.exit_y)
    player_x, player_y,
    move_timer,      \* Game.move_timer, in milliseconds
    reached_exit,    \* Game.reached_exit
    game_pc,         \* position inside Game._reset_state, or "play"
    stack,           \* call stack of carve(): frames [x, y, todo]
    queue, visited, farthest, max_dist,   \* locals of _find_exit
    moved,           \* the _try_move call of the last input handler: who made it,
                     \* with which direction, at which frame time
    active,          \* the manager's current_scene is this Game
    played           \* an input handler has run since the last _reset_state

navVars  == <<registry, instances, history, current_scene, scenes, factory_calls, calls, last>>
appVars  == <<is_running, app_pc, events, frame, frames, close_calls>>
gameVars == <<cols, rows, grid, exit_xy, player_x, player_y, move_timer, reached_exit,
              game_pc, stack, queue, visited, farthest, max_dist, moved, active,
              played>>
vars == <<navVars, appVars, gameVars>>

----------------------------------------------------------------------------
\* Bounds of the model
MaxCalls == 5

\* None (src/src/__main__.py:35): no scene object
NoScene == 0

EmptyMap == [n \in {} |-> 0]

\* dict[k] = v
Put(f, k, v) == [n \in DOMAIN f \cup {k} |-> IF n = k THEN v ELSE f[n]]

\* dict.update(g)
Update(f, g) == [n \in DOMAIN f \cup DOMAIN g |-> IF n \in DOMAIN g THEN g[n] ELSE f[n]]

----------------------------------------------------------------------------
\* SceneManager

\* The manager's fields as one value.
Manager == [registry |-> registry, instances |-> instances, history |-> history,
            current_scene |-> current_scene, scenes |-> scenes,
            factory_calls |-> factory_calls]

\* SceneManager.__init__
NewManager == [registry |-> EmptyMap, instances |-> EmptyMap, history |-> <<>>,
               current_scene |-> NoScene, scenes |-> <<>>, factory_calls |-> EmptyMap]

\* A call's outcome: the manager afterwards, the value returned, the exception raised.
Outcome(m, ret, raised) == [m |-> m, ret |-> ret, raised |-> raised]

\* SceneManager.register
register(m, mapping) == [m EXCEPT !.registry = Update(@, mapping)]

\* Scene.cleanup() on object id, as the manager sees it: one more call on that object.
cleanup(m, id) == [m EXCEPT !.scenes[id].cleanup_calls = @ + 1]

\* Scene.__init__ via self._registry[name](manager=self): a new object of that class.
construct(m, name) ==
    [m EXCEPT !.scenes = Append(@, [class |-> m.registry[name], cleanup_calls |-> 0]),
              !.factory_calls = Put(@, name, IF name \in DOMAIN @ THEN @[name] + 1 ELSE 1)]

get_scene_always_new(m, name) ==
    IF name \notin DOMAIN m.registry
    THEN Outcome(m, NoScene, "KeyError")
    ELSE LET m1 == construct(m, name)
             id == Len(m1.scenes)
         IN Outcome([m1 EXCEPT !.instances = Put(@, name, id)], id, "none")

\* SceneManager._get_scene
get_scene(m, name) ==
    IF name \notin DOMAIN m.instances
    THEN IF name \notin DOMAIN m.registry
         THEN Outcome(m, NoScene, "KeyError")
         ELSE LET m1 == construct(m, name)
                  id == Len(m1.scenes)
              IN Outcome([m1 EXCEPT !.instances = Put(@, name, id)], id, "none")
    ELSE Outcome(m, m.instances[name], "none")

\* SceneManager._current_scene_name: the first name whose object is the current one.
\* Every construction makes a new object, so at most one name matches.
current_scene_name(m) ==
    IF \E n \in DOMAIN m.instances : m.instances[n] = m.current_scene
    THEN Outcome(m, CHOOSE n \in DOMAIN m.instances : m.instances[n] = m.current_scene, "none")
    ELSE Outcome(m, "", "RuntimeError")

switch_to_drops_current(m, name) ==
    LET nm == current_scene_name(m)
        left == IF m.current_scene # NoScene
                THEN [cleanup([m EXCEPT !.history = Append(@, nm.ret)], m.current_scene)
                        EXCEPT !.current_scene = NoScene]
                ELSE m
        got == get_scene(left, name)
    IN IF m.current_scene # NoScene /\ nm.raised # "none" THEN Outcome(m, "None", nm.raised)
       ELSE IF got.raised # "none" THEN Outcome(got.m, "None", got.raised)
       ELSE Outcome([got.m EXCEPT !.current_scene = got.ret], "None", "none")

\* SceneManager.switch_to
switch_to(m, name) ==
    LET nm == current_scene_name(m)
        left == IF m.current_scene # NoScene
                THEN cleanup([m EXCEPT !.history = Append(@, nm.ret)], m.current_scene)
                ELSE m
        got == get_scene(left, name)
    IN IF m.current_scene # NoScene /\ nm.raised # "none" THEN Outcome(m, "None", nm.raised)
       ELSE IF got.raised # "none" THEN Outcome(got.m, "None", got.raised)
       ELSE Outcome([got.m EXCEPT !.current_scene = got.ret], "None", "none")

go_back_cleans_first(m) ==
    IF m.current_scene = NoScene THEN Outcome(m, "False", "none")
    ELSE LET cleaned == cleanup(m, m.current_scene)
         IN IF m.history = <<>> THEN Outcome(cleaned, "False", "none")
            ELSE LET previous == m.history[Len(m.history)]
                     popped == [cleaned EXCEPT !.history = SubSeq(@, 1, Len(@) - 1)]
                     got == get_scene(popped, previous)
                 IN IF got.raised # "none" THEN Outcome(got.m, "None", got.raised)
                    ELSE Outcome([got.m EXCEPT !.current_scene = got.ret], "True", "none")

go_back_cleans_entered(m) ==
    IF m.history = <<>> THEN Outcome(m, "False", "none")
    ELSE IF m.current_scene = NoScene THEN Outcome(m, "None", "AssertionError")
    ELSE LET cleaned == cleanup(m, m.current_scene)
             previous == m.history[Len(m.history)]
             popped == [cleaned EXCEPT !.history = SubSeq(@, 1, Len(@) - 1)]
             got == get_scene(popped, previous)
         IN IF got.raised # "none" THEN Outcome(got.m, "None", got.raised)
            ELSE Outcome(cleanup([got.m EXCEPT !.current_scene = got.ret], got.ret),
                         "True", "none")

\* SceneManager.go_back
go_back(m) ==
    IF m.history = <<>> THEN Outcome(m, "False", "none")
    ELSE IF m.current_scene = NoScene THEN Outcome(m, "None", "AssertionError")
    ELSE LET cleaned == cleanup(m, m.current_scene)
             previous == m.history[Len(m.history)]
             popped == [cleaned EXCEPT !.history = SubSeq(@, 1, Len(@) - 1)]
             got == get_scene(popped, previous)
         IN IF got.raised # "none" THEN Outcome(got.m, "None", got.raised)
            ELSE Outcome([got.m EXCEPT !.current_scene = got.ret], "True", "none")

close_all_only_current(m) ==
    IF m.current_scene = NoScene THEN m ELSE cleanup(m, m.current_scene)

\* SceneManager.close_all: cleanup() on every object in _instances
close_all(m) ==
    [m EXCEPT !.scenes = [i \in DOMAIN m.scenes |->
        IF \E n \in DOMAIN m.instances : m.instances[n] = i
        THEN [m.scenes[i] EXCEPT !.cleanup_calls = @ + 1]
        ELSE m.scenes[i]]]

\* The manager's fields right after SceneManager.__init__.
SetManagerInit ==
    /\ registry = NewManager.registry
    /\ instances = NewManager.instances
    /\ history = NewManager.history
    /\ current_scene = NewManager.current_scene
    /\ scenes = NewManager.scenes
    /\ factory_calls = NewManager.factory_calls

\* The manager's fields become those of m.
SetManager(m) ==
    /\ registry' = m.registry
    /\ instances' = m.instances
    /\ history' = m.history
    /\ current_scene' = m.current_scene
    /\ scenes' = m.scenes
    /\ factory_calls' = m.factory_calls

----------------------------------------------------------------------------
\* Values the variables of a component hold while a specification does not run it.

AppIdle ==
    /\ is_running = TRUE
    /\ app_pc = "idle"
    /\ events = <<>>
    /\ frame = <<>>
    /\ frames = 0
    /\ close_calls = 0

\* The last input handler did not call _try_move.
NoMove == [by |-> "none", d |-> <<0, 0>>, dt |-> 0]

GameIdle ==
    /\ cols = 0 /\ rows = 0
    /\ grid = <<>>
    /\ exit_xy = <<0, 0>>
    /\ player_x = 0 /\ player_y = 0
    /\ move_timer = 0
    /\ reached_exit = FALSE
    /\ game_pc = "idle"
    /\ stack = <<>>
    /\ queue = <<>> /\ visited = {} /\ farthest = <<0, 0>> /\ max_dist = 0
    /\ moved = NoMove
    /\ active = FALSE
    /\ played = FALSE

NavIdle ==
    /\ SetManagerInit
    /\ calls = <<>>
    /\ last = [op |-> "init", arg |-> "", ret |-> "None", raised |-> "none"]

----------------------------------------------------------------------------
\* Spec: the SceneManager under arbitrary calls

\* Scene names passed to switch_to; "zz" is never registered.
Names == {"a", "b", "zz"}

\* Arguments of register: scene classes K1, K2 under the names a and b.
RegisterArgs ==
    [ab |-> ("a" :> "K1" @@ "b" :> "K1"),
     a  |-> ("a" :> "K1"),
     b  |-> ("b" :> "K2"),
     a2 |-> ("a" :> "K2")]

Called(op, arg, out) ==
    /\ calls' = Append(calls, [op |-> op, arg |-> arg, raised |-> out.raised])
    /\ last' = [op |-> op, arg |-> arg, ret |-> out.ret, raised |-> out.raised]

Register(label) ==
    /\ Len(calls) < MaxCalls
    /\ LET out == Outcome(register(Manager, RegisterArgs[label]), "None", "none")
       IN SetManager(out.m) /\ Called("register", label, out)
    /\ UNCHANGED <<appVars, gameVars>>

SwitchTo(name) ==
    /\ Len(calls) < MaxCalls
    /\ LET out == switch_to(Manager, name)
       IN SetManager(out.m) /\ Called("switch_to", name, out)
    /\ UNCHANGED <<appVars, gameVars>>

GoBack ==
    /\ Len(calls) < MaxCalls
    /\ LET out == go_back(Manager)
       IN SetManager(out.m) /\ Called("go_back", "", out)
    /\ UNCHANGED <<appVars, gameVars>>

Init == NavIdle /\ AppIdle /\ GameIdle

Next ==
    \/ \E label \in DOMAIN RegisterArgs : Register(label)
    \/ \E name \in Names : SwitchTo(name)
    \/ GoBack

Spec == Init /\ [][Next]_vars

----------------------------------------------------------------------------
\* SpecApp: the App frame loop over the registered scenes

MaxEvents == 2
MaxFrames == 3

\* App.SCENES
SCENES == ("home" :> "HomePage" @@ "propose" :> "Propose" @@ "game" :> "Game")

\* pygame.Rect(x, y, w, h)
Rect(x, y, w, h) == [x |-> x, y |-> y, w |-> w, h |-> h]

\* pygame.Rect.collidepoint: left and top edges inside, right and bottom outside
collidepoint(r, pos) ==
    /\ r.x <= pos[1] /\ pos[1] < r.x + r.w
    /\ r.y <= pos[2] /\ pos[2] < r.y + r.h

\* HomePage.propose_rect, HomePage.play_rect, Propose.back_rect, Game.back_rect
propose_rect == Rect(300, 200, 200, 60)
play_rect == Rect(300, 280, 200, 60)
propose_back_rect == Rect(20, 20, 120, 40)
game_back_rect == Rect(10, 10, 100, 36)

\* Events pygame.event.get() can hand to _run_frame: QUIT, a key press, and mouse
\* presses on each button, on both Back buttons, and off every button.
ClickPositions == {<<400, 230>>, <<400, 310>>, <<50, 30>>, <<700, 400>>}

Events ==
    {[type |-> "QUIT", button |-> 0, pos |-> <<0, 0>>],
     [type |-> "KEYDOWN", button |-> 0, pos |-> <<0, 0>>]}
    \cup {[type |-> "MOUSEBUTTONDOWN", button |-> 1, pos |-> q] : q \in ClickPositions}
    \cup {[type |-> "MOUSEBUTTONDOWN", button |-> 3, pos |-> <<50, 30>>]}

EventLists == UNION {[1..n -> Events] : n \in 0..MaxEvents}

\* Propose._handle_click and the Back branch of Game.handle_event:
\* if not self.manager.go_back(): self.manager.switch_to("home")
back_or_home(m) ==
    LET back == go_back(m)
    IN IF back.raised # "none" THEN back
       ELSE IF back.ret = "False"
       THEN LET sw == switch_to(back.m, "home")
            IN Outcome(sw.m, "fallback", sw.raised)
       ELSE Outcome(back.m, "None", "none")

\* HomePage.handle_event
home_handle_event(m, event) ==
    IF event.type = "MOUSEBUTTONDOWN" /\ event.button = 1
    THEN IF collidepoint(propose_rect, event.pos) THEN switch_to(m, "propose")
         ELSE IF collidepoint(play_rect, event.pos) THEN switch_to(m, "game")
         ELSE Outcome(m, "None", "none")
    ELSE Outcome(m, "None", "none")

propose_switches_home(m, event) ==
    IF event.type = "MOUSEBUTTONDOWN" /\ event.button = 1
       /\ collidepoint(propose_back_rect, event.pos)
    THEN switch_to(m, "home")
    ELSE Outcome(m, "None", "none")

\* Propose.handle_event
propose_handle_event(m, event) ==
    IF event.type = "MOUSEBUTTONDOWN" /\ event.button = 1
       /\ collidepoint(propose_back_rect, event.pos)
    THEN back_or_home(m)
    ELSE Outcome(m, "None", "none")

\* Game.handle_event, as far as the manager is concerned (a K_1 key press moves the
\* player and does not reach the manager)
game_handle_event(m, event) ==
    IF event.type = "MOUSEBUTTONDOWN" /\ event.button = 1
       /\ collidepoint(game_back_rect, event.pos)
    THEN back_or_home(m)
    ELSE Outcome(m, "None", "none")

\* self.scene_manager.current_scene.handle_event(event)
handle_event(m, event) ==
    LET class == m.scenes[m.current_scene].class
    IN IF class = "HomePage" THEN home_handle_event(m, event)
       ELSE IF class = "Propose" THEN propose_handle_event(m, event)
       ELSE game_handle_event(m, event)

\* App.__init__ has run: the scenes are registered and "home" is current;
\* App.start is at the head of its while loop.
InitApp ==
    /\ LET m == switch_to(register(NewManager, SCENES), "home").m
       IN /\ registry = m.registry
          /\ instances = m.instances
          /\ history = m.history
          /\ current_scene = m.current_scene
          /\ scenes = m.scenes
          /\ factory_calls = m.factory_calls
    /\ calls = <<>>
    /\ last = [op |-> "init", arg |-> "", ret |-> "None", raised |-> "none"]
    /\ is_running = TRUE
    /\ app_pc = "loop"
    /\ events = <<>>
    /\ frame = <<>>
    /\ frames = 0
    /\ close_calls = 0
    /\ GameIdle

Dispatched(call) == Append(frame, [call |-> call, scene |-> current_scene])

\* App.start finds is_running true and calls _run_frame, which reads the clock and
\* polls the events.
PollEvents(polled) ==
    /\ app_pc = "loop"
    /\ is_running
    /\ frames < MaxFrames
    /\ events' = polled
    /\ frame' = <<>>
    /\ frames' = frames + 1
    /\ app_pc' = "events"
    /\ UNCHANGED <<is_running, close_calls>>
    /\ UNCHANGED <<navVars, gameVars>>

\* One pass of the for loop of _run_frame over `event`: QUIT stops the application
\* and returns from the frame; any other event goes to the current scene. `last`
\* keeps what the scene's handler did ("fallback": its go_back returned False and
\* it called switch_to("home")).
dispatch_event(event) ==
    IF event.type = "QUIT"
    THEN /\ is_running' = FALSE
         /\ app_pc' = "loop"
         /\ events' = <<>>
         /\ UNCHANGED <<frame, navVars>>
    ELSE IF current_scene = NoScene
    THEN /\ app_pc' = "AssertionError"
         /\ events' = <<>>
         /\ UNCHANGED <<is_running, frame, navVars>>
    ELSE LET out == handle_event(Manager, event)
         IN /\ SetManager(out.m)
            /\ frame' = Dispatched("handle_event")
            /\ last' = [op |-> "handle_event", arg |-> event.type,
                        ret |-> out.ret, raised |-> out.raised]
            /\ IF out.raised = "none"
               THEN app_pc' = "events" /\ events' = Tail(events)
               ELSE app_pc' = out.raised /\ events' = <<>>
            /\ UNCHANGED <<is_running, calls>>

DispatchEvent ==
    /\ app_pc = "events"
    /\ events # <<>>
    /\ dispatch_event(Head(events))
    /\ UNCHANGED <<frames, close_calls>>
    /\ UNCHANGED gameVars

\* The for loop is over: current_scene.update(dt). raises tells whether update
\* raises ExitError (src/src/utils.py:26). None of the three shipped scenes does;
\* the driver's handling of it is modelled for any Scene.update.
UpdateScene(raises) ==
    /\ app_pc = "events"
    /\ events = <<>>
    /\ frame' = Dispatched("update")
    /\ IF raises
       THEN is_running' = FALSE /\ app_pc' = "loop"
       ELSE is_running' = is_running /\ app_pc' = "draw"
    /\ UNCHANGED <<events, frames, close_calls>>
    /\ UNCHANGED <<navVars, gameVars>>

\* current_scene.draw(self.screen); pygame.display.flip()
DrawScene ==
    /\ app_pc = "draw"
    /\ frame' = Dispatched("draw")
    /\ app_pc' = "loop"
    /\ UNCHANGED <<is_running, events, frames, close_calls>>
    /\ UNCHANGED <<navVars, gameVars>>

\* App.start finds is_running false: self.scene_manager.close_all()
CloseAll ==
    /\ app_pc = "loop"
    /\ ~is_running
    /\ SetManager(close_all(Manager))
    /\ close_calls' = close_calls + 1
    /\ app_pc' = "done"
    /\ UNCHANGED <<is_running, events, frame, frames, calls, last>>
    /\ UNCHANGED gameVars

NextApp ==
    \/ \E polled \in EventLists : PollEvents(polled)
    \/ DispatchEvent
    \/ \E raises \in BOOLEAN : UpdateScene(raises)
    \/ DrawScene
    \/ CloseAll

SpecApp == InitApp /\ [][NextApp]_vars

----------------------------------------------------------------------------
\* SpecGame: the Game scene

MaxCols == 7
MaxRows == 5

\* Cell values of Game.grid
WALL == 0
FLOOR == 1
EXIT == 2

\* Game.MOVE_DELAY, in milliseconds
MOVE_DELAY == 150

\* Frame times dt handed to update, in milliseconds
DtSet == {50, 100, 150}

\* directions = [(2, 0), (-2, 0), (0, 2), (0, -2)]
CarveDirections == {<<2, 0>>, <<-2, 0>>, <<0, 2>>, <<0, -2>>}

\* [(-1,0),(1,0),(0,-1),(0,1)]
SearchDirections == <<(<<-1, 0>>), (<<1, 0>>), (<<0, -1>>), (<<0, 1>>)>>

\* The keys _direction_from_keys reads: a/LEFT, d/RIGHT, w/UP, s/DOWN
DirectionKeys == {"left", "right", "up", "down"}

\* maze = [[0 for _ in range(w)] for _ in range(h)]
AllWall(w, h) == [y \in 0..(h - 1) |-> [x \in 0..(w - 1) |-> WALL]]

\* maze[y][x] = v
SetCell(maze, x, y, v) == [maze EXCEPT ![y][x] = v]

can_carve_to_border(maze, w, h, nx, ny) ==
    0 <= nx /\ nx < w /\ 0 <= ny /\ ny < h /\ maze[ny][nx] = WALL

can_carve_open_cells(maze, w, h, nx, ny) ==
    1 <= nx /\ nx < w - 1 /\ 1 <= ny /\ ny < h - 1

\* 1 <= nx < w - 1 and 1 <= ny < h - 1 and maze[ny][nx] == 0
can_carve(maze, w, h, nx, ny) ==
    1 <= nx /\ nx < w - 1 /\ 1 <= ny /\ ny < h - 1 /\ maze[ny][nx] = WALL

carve_cells_without_passage(maze, x, y, dx, dy) ==
    SetCell(maze, x + dx, y + dy, FLOOR)

\* maze[y + dy // 2][x + dx // 2] = 1; maze[ny][nx] = 1
carve_cells(maze, x, y, dx, dy) ==
    SetCell(SetCell(maze, x + (dx \div 2), y + (dy \div 2), FLOOR), x + dx, y + dy, FLOOR)

\* A call of carve(x, y): todo holds the shuffled directions the for loop has not
\* reached yet. random.shuffle may put them in any order, so the loop may take any
\* of them next.
CarveFrame(x, y) == [x |-> x, y |-> y, todo |-> CarveDirections]

\* _direction_from_keys
direction_from_keys(keys) ==
    IF "left" \in keys THEN <<-1, 0>>
    ELSE IF "right" \in keys THEN <<1, 0>>
    ELSE IF "up" \in keys THEN <<0, -1>>
    ELSE IF "down" \in keys THEN <<0, 1>>
    ELSE <<0, 0>>

try_move_through_walls(g, w, h, px, py, solved, dx, dy) ==
    LET nx == px + dx
        ny == py + dy
    IN IF 0 <= nx /\ nx < w /\ 0 <= ny /\ ny < h
       THEN [x |-> nx, y |-> ny, solved |-> (solved \/ g[ny][nx] = EXIT)]
       ELSE [x |-> px, y |-> py, solved |-> solved]

try_move_never_solves(g, w, h, px, py, solved, dx, dy) ==
    LET nx == px + dx
        ny == py + dy
    IN IF 0 <= nx /\ nx < w /\ 0 <= ny /\ ny < h
       THEN IF g[ny][nx] \in {FLOOR, EXIT}
            THEN [x |-> nx, y |-> ny, solved |-> solved]
            ELSE [x |-> px, y |-> py, solved |-> solved]
       ELSE [x |-> px, y |-> py, solved |-> solved]

\* Game._try_move: the player's position and the solved flag afterwards
try_move(g, w, h, px, py, solved, dx, dy) ==
    LET nx == px + dx
        ny == py + dy
    IN IF 0 <= nx /\ nx < w /\ 0 <= ny /\ ny < h
       THEN LET tile == g[ny][nx]
            IN IF tile \in {FLOOR, EXIT}
               THEN [x |-> nx, y |-> ny, solved |-> (solved \/ tile = EXIT)]
               ELSE [x |-> px, y |-> py, solved |-> solved]
       ELSE [x |-> px, y |-> py, solved |-> solved]

mark_exit_skipped(g, cell) == g

\* self.grid[farthest[1]][farthest[0]] = 2
mark_exit(g, cell) == SetCell(g, cell[1], cell[2], EXIT)

visit_same_dist(s, g, w, h, x, y, dist, d) ==
    LET nx == x + d[1]
        ny == y + d[2]
    IN IF /\ 0 <= nx /\ nx < w
          /\ 0 <= ny /\ ny < h
          /\ g[ny][nx] = FLOOR
          /\ <<nx, ny>> \notin s.visited
       THEN [visited |-> s.visited \cup {<<nx, ny>>},
             queue |-> Append(s.queue, [cell |-> <<nx, ny>>, dist |-> dist])]
       ELSE s

\* One neighbour of the cell (x, y) in _find_exit's inner loop
visit(s, g, w, h, x, y, dist, d) ==
    LET nx == x + d[1]
        ny == y + d[2]
    IN IF /\ 0 <= nx /\ nx < w
          /\ 0 <= ny /\ ny < h
          /\ g[ny][nx] = FLOOR
          /\ <<nx, ny>> \notin s.visited
       THEN [visited |-> s.visited \cup {<<nx, ny>>},
             queue |-> Append(s.queue, [cell |-> <<nx, ny>>, dist |-> dist + 1])]
       ELSE s

\* The inner loop of _find_exit over the four neighbours, in the code's order
visit_neighbours(s, g, w, h, x, y, dist) ==
    visit(visit(visit(visit(s, g, w, h, x, y, dist, SearchDirections[1]),
                      g, w, h, x, y, dist, SearchDirections[2]),
                g, w, h, x, y, dist, SearchDirections[3]),
          g, w, h, x, y, dist, SearchDirections[4])

\* Game.__init__ has set cols and rows and is about to call _reset_state.
InitGame ==
    /\ cols \in 1..MaxCols
    /\ rows \in 1..MaxRows
    /\ grid = <<>>
    /\ exit_xy = <<0, 0>>
    /\ player_x = 0 /\ player_y = 0
    /\ move_timer = 0
    /\ reached_exit = FALSE
    /\ game_pc = "reset"
    /\ stack = <<>>
    /\ queue = <<>> /\ visited = {} /\ farthest = <<0, 0>> /\ max_dist = 0
    /\ moved = NoMove
    /\ active = FALSE
    /\ played = FALSE
    /\ NavIdle /\ AppIdle

\* _reset_state enters _generate_maze(cols, rows): the maze is allocated, (1,1) is
\* carved and carve(1, 1) is called. maze[1][1] does not exist when w < 2 or h < 2.
GenerateMaze ==
    /\ game_pc = "reset"
    /\ IF cols < 2 \/ rows < 2
       THEN /\ game_pc' = "IndexError"
            /\ UNCHANGED <<grid, stack>>
       ELSE /\ grid' = SetCell(AllWall(cols, rows), 1, 1, FLOOR)
            /\ stack' = <<CarveFrame(1, 1)>>
            /\ game_pc' = "carve"
    /\ moved' = NoMove
    /\ UNCHANGED <<cols, rows, exit_xy, player_x, player_y, move_timer, reached_exit,
                   queue, visited, farthest, max_dist, active, played>>
    /\ UNCHANGED <<navVars, appVars>>

\* One iteration of carve's for loop, in the innermost call
Carve(d) ==
    /\ game_pc = "carve"
    /\ stack # <<>>
    /\ LET top == stack[Len(stack)]
           nx == top.x + d[1]
           ny == top.y + d[2]
           rest == [top EXCEPT !.todo = @ \ {d}]
           below == SubSeq(stack, 1, Len(stack) - 1)
       IN /\ d \in top.todo
          /\ IF can_carve(grid, cols, rows, nx, ny)
             THEN /\ grid' = carve_cells(grid, top.x, top.y, d[1], d[2])
                  /\ stack' = below \o <<rest, CarveFrame(nx, ny)>>
             ELSE /\ grid' = grid
                  /\ stack' = below \o <<rest>>
    /\ UNCHANGED <<cols, rows, exit_xy, player_x, player_y, move_timer, reached_exit,
                   game_pc, queue, visited, farthest, max_dist, moved, active,
                   played>>
    /\ UNCHANGED <<navVars, appVars>>

\* The innermost carve call returns; when carve(1, 1) returns, _generate_maze
\* returns the maze and _find_exit starts.
CarveReturn ==
    /\ game_pc = "carve"
    /\ stack # <<>>
    /\ stack[Len(stack)].todo = {}
    /\ stack' = SubSeq(stack, 1, Len(stack) - 1)
    /\ IF Len(stack) = 1
       THEN /\ game_pc' = "find_exit"
            /\ queue' = <<[cell |-> <<1, 1>>, dist |-> 0]>>
            /\ visited' = {<<1, 1>>}
            /\ farthest' = <<1, 1>>
            /\ max_dist' = 0
       ELSE UNCHANGED <<game_pc, queue, visited, farthest, max_dist>>
    /\ UNCHANGED <<cols, rows, grid, exit_xy, player_x, player_y, move_timer,
                   reached_exit, moved, active, played>>
    /\ UNCHANGED <<navVars, appVars>>

\* One iteration of _find_exit's while loop
FindExitStep ==
    /\ game_pc = "find_exit"
    /\ queue # <<>>
    /\ LET head == Head(queue)
           x == head.cell[1]
           y == head.cell[2]
           s == visit_neighbours([visited |-> visited, queue |-> Tail(queue)],
                                 grid, cols, rows, x, y, head.dist)
       IN /\ IF head.dist > max_dist
             THEN max_dist' = head.dist /\ farthest' = head.cell
             ELSE UNCHANGED <<max_dist, farthest>>
          /\ visited' = s.visited
          /\ queue' = s.queue
    /\ UNCHANGED <<cols, rows, grid, exit_xy, player_x, player_y, move_timer,
                   reached_exit, game_pc, stack, moved, active, played>>
    /\ UNCHANGED <<navVars, appVars>>

\* _find_exit marks the farthest cell and returns (its locals are gone);
\* _reset_state stores the exit and puts the player, the timer and the solved flag
\* back.
FindExitReturn ==
    /\ game_pc = "find_exit"
    /\ queue = <<>>
    /\ grid' = mark_exit(grid, farthest)
    /\ exit_xy' = farthest
    /\ player_x' = 1
    /\ player_y' = 1
    /\ move_timer' = 0
    /\ reached_exit' = FALSE
    /\ game_pc' = "play"
    /\ visited' = {} /\ farthest' = <<0, 0>> /\ max_dist' = 0
    /\ UNCHANGED <<cols, rows, stack, queue, moved, active, played>>
    /\ UNCHANGED <<navVars, appVars>>

\* The manager makes the Game its current scene (switch_to("game") from the home
\* page). No code of Game runs: the object is the one its constructor or its last
\* cleanup left.
EnterGame ==
    /\ game_pc = "play"
    /\ ~active
    /\ active' = TRUE
    /\ UNCHANGED <<cols, rows, grid, exit_xy, player_x, player_y, move_timer,
                   reached_exit, game_pc, stack, queue, visited, farthest, max_dist,
                   moved, played>>
    /\ UNCHANGED <<navVars, appVars>>

\* Game.handle_event for KEYDOWN of K_1 while `keys` are held. _run_frame hands
\* events to the current scene only.
HandleKeyDown(keys) ==
    /\ game_pc = "play"
    /\ active
    /\ LET d == direction_from_keys(keys)
           r == try_move(grid, cols, rows, player_x, player_y, reached_exit, d[1], d[2])
       IN /\ player_x' = r.x
          /\ player_y' = r.y
          /\ reached_exit' = r.solved
          /\ moved' = [by |-> "handle_event", d |-> d, dt |-> 0]
    /\ played' = TRUE
    /\ UNCHANGED <<cols, rows, grid, exit_xy, move_timer, game_pc, stack, queue,
                   visited, farthest, max_dist, active>>
    /\ UNCHANGED <<navVars, appVars>>

\* Game.update(dt) while `keys` are held. _run_frame updates the current scene only.
UpdateGame(dt, keys) ==
    /\ game_pc = "play"
    /\ active
    /\ LET d == direction_from_keys(keys)
           r == try_move(grid, cols, rows, player_x, player_y, reached_exit, d[1], d[2])
       IN IF reached_exit
          THEN /\ UNCHANGED <<player_x, player_y, reached_exit, move_timer>>
               /\ moved' = NoMove
          ELSE IF d # <<0, 0>>
          THEN IF move_timer + dt >= MOVE_DELAY
               THEN /\ player_x' = r.x
                    /\ player_y' = r.y
                    /\ reached_exit' = r.solved
                    /\ move_timer' = 0
                    /\ moved' = [by |-> "update", d |-> d, dt |-> dt]
               ELSE /\ move_timer' = move_timer + dt
                    /\ moved' = NoMove
                    /\ UNCHANGED <<player_x, player_y, reached_exit>>
          ELSE /\ move_timer' = 0
               /\ moved' = NoMove
               /\ UNCHANGED <<player_x, player_y, reached_exit>>
    /\ played' = TRUE
    /\ UNCHANGED <<cols, rows, grid, exit_xy, game_pc, stack, queue, visited,
                   farthest, max_dist, active>>
    /\ UNCHANGED <<navVars, appVars>>

\* A cleanup that resets nothing, as Scene.cleanup does.
cleanup_keeps_state ==
    /\ game_pc = "play"
    /\ active' = FALSE
    /\ UNCHANGED <<cols, rows, grid, exit_xy, player_x, player_y, move_timer,
                   reached_exit, game_pc, stack, queue, visited, farthest, max_dist,
                   moved, played>>
    /\ UNCHANGED <<navVars, appVars>>

\* Game.cleanup, which the manager calls when it leaves the scene (the Back button's
\* go_back or switch_to) and in close_all: _reset_state runs again. Nothing reads
\* the fields _reset_state is about to overwrite before it has overwritten them, so
\* their old values are dropped here, at its entry. The scene gets no more input
\* from here on: it is not current when the manager's call returns.
CleanupGame ==
    /\ game_pc = "play"
    /\ game_pc' = "reset"
    /\ grid' = <<>>
    /\ exit_xy' = <<0, 0>>
    /\ player_x' = 0 /\ player_y' = 0
    /\ move_timer' = 0
    /\ reached_exit' = FALSE
    /\ moved' = NoMove
    /\ active' = FALSE
    /\ played' = FALSE
    /\ UNCHANGED <<cols, rows, stack, queue, visited, farthest, max_dist>>
    /\ UNCHANGED <<navVars, appVars>>

NextGame ==
    \/ GenerateMaze
    \/ \E d \in CarveDirections : Carve(d)
    \/ CarveReturn
    \/ FindExitStep
    \/ FindExitReturn
    \/ EnterGame
    \/ \E keys \in SUBSET DirectionKeys : HandleKeyDown(keys)
    \/ \E dt \in DtSet : \E keys \in SUBSET DirectionKeys : UpdateGame(dt, keys)
    \/ CleanupGame

SpecGame == InitGame /\ [][NextGame]_vars

----------------------------------------------------------------------------
\* Properties of the SceneManager (checked under Spec)

\* This step is the call op(arg).
IsCall(op, arg) ==
    /\ Len(calls') = Len(calls) + 1
    /\ calls'[Len(calls')].op = op
    /\ calls'[Len(calls')].arg = arg

\* This step is a switch_to or go_back call that navigated.
Navigated ==
    /\ Len(calls') = Len(calls) + 1
    /\ calls'[Len(calls')].op \in {"switch_to", "go_back"}
    /\ last'.raised = "none"
    /\ last'.ret # "False"

CleanupCalls(ss, i) == IF i \in DOMAIN ss THEN ss[i].cleanup_calls ELSE 0

\* C1: a switch_to with an unregistered name, made while a scene is current, leaves
\* the history, the instance table and every scene's cleanup count as they were.
C1_FailedSwitchTouchesNothing ==
    [][\A name \in Names :
         (IsCall("switch_to", name) /\ name \notin DOMAIN registry /\ current_scene # NoScene)
         => (history' = history /\ instances' = instances /\ scenes' = scenes)]_vars

\* C2: a switch_to with an unregistered name raises to its caller (the dictionary
\* lookup's KeyError is the unknown-scene error), the manager stays usable, and the
\* current scene is the same object as before the call.
C2_UnknownNameRaisesAndKeepsCurrent ==
    [][\A name \in Names :
         (IsCall("switch_to", name) /\ name \notin DOMAIN registry)
         => (last'.raised = "KeyError" /\ current_scene' = current_scene)]_vars

C2_Witness ==
    /\ last.op = "switch_to"
    /\ last.raised = "KeyError"
    /\ current_scene # NoScene
    /\ Len(calls) < MaxCalls

\* C3 as stated: a navigating call cleans up, once, the scene it leaves and never
\* the scene it enters.
C3_NeverCleansEntered ==
    [][Navigated =>
         /\ current_scene # NoScene =>
              CleanupCalls(scenes', current_scene) = CleanupCalls(scenes, current_scene) + 1
         /\ CleanupCalls(scenes', current_scene') = CleanupCalls(scenes, current_scene')]_vars

C3_Scenario ==
    <<[op |-> "register", arg |-> "ab", raised |-> "none"],
      [op |-> "switch_to", arg |-> "a", raised |-> "none"],
      [op |-> "switch_to", arg |-> "b", raised |-> "none"],
      [op |-> "go_back", arg |-> "", raised |-> "none"]>>

\* C3 (amended): a navigating call cleans up exactly once the scene object it
\* leaves and no other object, so the entered scene is cleaned up only when it is
\* the object being left; and after register({a,b}); switch_to(a); switch_to(b);
\* go_back() the call returned True, a's object is current, and a and b have one
\* cleanup each.
C3_CleanupOnlyOnLeft ==
    /\ [][Navigated =>
            \A i \in DOMAIN scenes' :
               CleanupCalls(scenes', i) =
                  CleanupCalls(scenes, i) + (IF i = current_scene THEN 1 ELSE 0)]_vars
    /\ [](calls = C3_Scenario =>
            /\ last.ret = "True"
            /\ current_scene = instances["a"]
            /\ current_scene = 1
            /\ scenes[instances["a"]].cleanup_calls = 1
            /\ scenes[instances["b"]].cleanup_calls = 1)

C3_Witness ==
    /\ calls = C3_Scenario
    /\ current_scene = instances["a"]

\* C4: go_back with an empty history returns False and changes nothing: not the
\* current scene, the history, the instance table, nor any cleanup count.
C4_GoBackOnEmptyHistory ==
    [][(IsCall("go_back", "") /\ history = <<>>)
         => /\ last'.ret = "False" /\ last'.raised = "none"
            /\ UNCHANGED <<registry, instances, history, current_scene, scenes,
                           factory_calls>>]_vars

C4_Witness ==
    /\ last.op = "go_back"
    /\ last.ret = "False"
    /\ history = <<>>
    /\ current_scene # NoScene

\* C5: the constructor registered under a name runs at most once, the object stored
\* under a name is never replaced, and every navigation to a name makes that first
\* object current.
C5_Memoized ==
    /\ [](\A n \in DOMAIN factory_calls : factory_calls[n] <= 1)
    /\ [][\A n \in DOMAIN instances :
            n \in DOMAIN instances' /\ instances'[n] = instances[n]]_vars
    /\ [][\A n \in Names :
            (IsCall("switch_to", n) /\ last'.raised = "none")
            => /\ current_scene' = instances'[n]
               /\ (n \in DOMAIN instances => current_scene' = instances[n])]_vars
    /\ [][(IsCall("go_back", "") /\ last'.ret = "True")
            => current_scene' = instances[history[Len(history)]]]_vars

C5_Witness ==
    /\ \E i \in 1..Len(calls) : \E j \in (i+1)..Len(calls) :
         /\ calls[i].op = "switch_to" /\ calls[j].op = "switch_to"
         /\ calls[i].arg = "a" /\ calls[j].arg = "a"
         /\ calls[i].raised = "none"
         /\ \E k \in (i+1)..(j-1) : calls[k] = [op |-> "register", arg |-> "a2", raised |-> "none"]
    /\ factory_calls["a"] = 1
    /\ current_scene = instances["a"]

\* C6: once a switch_to has succeeded, a scene is current, it is an entry of the
\* instance table, and resolving its name does not raise.
C6_OneCurrentScene ==
    (\E i \in 1..Len(calls) : calls[i].op = "switch_to" /\ calls[i].raised = "none")
    => /\ current_scene # NoScene
       /\ \E n \in DOMAIN instances : instances[n] = current_scene
       /\ current_scene_name(Manager).raised = "none"

C6_Witness ==
    /\ \E i \in 1..Len(calls) : \E j \in (i+1)..Len(calls) :
         /\ calls[i].op = "switch_to" /\ calls[i].raised = "none"
         /\ calls[j].op = "switch_to" /\ calls[j].raised = "KeyError"
    /\ last.op = "go_back" /\ last.ret = "True"

----------------------------------------------------------------------------
\* Properties of the frame loop (checked under SpecApp)

\* C7: the step that stops the application (a QUIT event, or ExitError out of
\* update) ends the frame at once: nothing more is dispatched in it, and the only
\* step that follows is close_all, which runs once and calls cleanup() exactly once
\* on every scene object ever constructed, current or not.
C7_Shutdown ==
    /\ [][(is_running /\ ~is_running')
            => /\ app_pc' = "loop" /\ events' = <<>>
               /\ close_calls' = close_calls
               /\ \/ frame' = frame
                  \/ /\ frame' = Dispatched("update")
                     /\ \A i \in 1..Len(frame) : frame[i].call = "handle_event"]_vars
    /\ [][~is_running
            => /\ frame' = frame
               /\ close_calls' = close_calls + 1
               /\ app_pc' = "done"
               /\ current_scene' = current_scene
               /\ DOMAIN scenes' = DOMAIN scenes
               /\ \A i \in DOMAIN scenes :
                    scenes'[i].cleanup_calls = scenes[i].cleanup_calls + 1]_vars
    /\ [](close_calls <= 1)
    /\ [](~is_running => app_pc \in {"loop", "done"})
    /\ [](app_pc = "done" <=> close_calls = 1)
    /\ []((~is_running /\ app_pc = "loop") => ENABLED CloseAll)

C7_Witness ==
    /\ app_pc = "done"
    /\ close_calls = 1
    /\ \E i \in DOMAIN scenes : i # current_scene
    /\ frame # <<>>
    /\ frame[Len(frame)].call = "handle_event"

----------------------------------------------------------------------------
\* Properties of the Game scene (checked under SpecGame)

\* C8: once reached_exit is true, no call of _try_move, from update or from the
\* key-down handler, moves the player until the scene resets.
C8_NoMoveAfterSolved ==
    [][(game_pc = "play" /\ reached_exit /\ game_pc' = "play")
         => (player_x' = player_x /\ player_y' = player_y)]_vars

\* The FLOOR and EXIT cells of a grid
OpenCells(g, w, h) ==
    {c \in (0..(w - 1)) \X (0..(h - 1)) : g[c[2]][c[1]] \in {FLOOR, EXIT}}

\* 4-directional adjacency
Adjacent(a, b) ==
    \/ a[1] = b[1] /\ (a[2] = b[2] + 1 \/ b[2] = a[2] + 1)
    \/ a[2] = b[2] /\ (a[1] = b[1] + 1 \/ b[1] = a[1] + 1)

\* The cells of `open` that paths inside `open` reach from the cells of `seen`
RECURSIVE Reachable(_, _)
Reachable(seen, open) ==
    LET more == {c \in open \ seen : \E a \in seen : Adjacent(a, c)}
    IN IF more = {} THEN seen ELSE Reachable(seen \cup more, open)

\* The open cells form a tree that holds (1,1): connected, with one edge fewer
\* than cells (each edge is counted in both directions).
IsTree(g, w, h) ==
    LET open == OpenCells(g, w, h)
    IN /\ <<1, 1>> \in open
       /\ Reachable({<<1, 1>>}, open) = open
       /\ Cardinality({e \in open \X open : Adjacent(e[1], e[2])})
            = 2 * (Cardinality(open) - 1)

\* The outer border of a w x h grid
Border(w, h) ==
    ({0, w - 1} \X (0..(h - 1))) \cup ((0..(w - 1)) \X {0, h - 1})

\* C9: every grid that generation and exit placement produce with cols, rows >= 5
\* has its FLOOR and EXIT cells forming a tree under 4-directional adjacency, all
\* reachable from the entrance (1,1).
C9_OpenCellsFormTree ==
    (game_pc = "play" /\ cols >= 5 /\ rows >= 5) => IsTree(grid, cols, rows)

C9_Witness ==
    /\ game_pc = "play"
    /\ cols = 7 /\ rows = 5
    /\ \E c \in OpenCells(grid, cols, rows) :
         Cardinality({b \in OpenCells(grid, cols, rows) : Adjacent(b, c)}) = 3

\* C10: with cols, rows >= 5 every border cell is WALL, while the maze is carved,
\* while the exit is searched and placed, and afterwards.
C10_BorderIsWall ==
    (game_pc \in {"carve", "find_exit", "play"} /\ cols >= 5 /\ rows >= 5)
    => \A c \in Border(cols, rows) : grid[c[2]][c[1]] = WALL

C10_Witness ==
    /\ game_pc = "play"
    /\ cols = 6 /\ rows = 5
    /\ grid[3][3] # WALL
    /\ exit_xy \in OpenCells(grid, cols, rows)

\* The cells of `open` farthest from the entrance along paths inside `open`, given
\* that `seen` holds the cells reached so far and `newest` the farthest of them:
\* the last layer of a layer-by-layer expansion.
RECURSIVE LastLayer(_, _, _)
LastLayer(seen, newest, open) ==
    LET more == {c \in open \ seen : \E a \in newest : Adjacent(a, c)}
    IN IF more = {} THEN newest ELSE LastLayer(seen \cup more, more, open)

\* The open cells at the largest distance from the entrance (1,1)
FarthestCells(g, w, h) == LastLayer({<<1, 1>>}, {<<1, 1>>}, OpenCells(g, w, h))

\* C11: in every generated maze the EXIT cell is an open cell whose distance from
\* the entrance (1,1) is the largest distance of any open cell.
C11_ExitIsFarthest ==
    game_pc = "play"
    => /\ grid[exit_xy[2]][exit_xy[1]] = EXIT
       /\ exit_xy \in FarthestCells(grid, cols, rows)

\* A maze with a dead end that is nearer to the entrance than the exit is
C11_Witness ==
    /\ game_pc = "play"
    /\ cols = 7 /\ rows = 5
    /\ \E c \in OpenCells(grid, cols, rows) \ FarthestCells(grid, cols, rows) :
         /\ c # <<1, 1>>
         /\ Cardinality({b \in OpenCells(grid, cols, rows) : Adjacent(b, c)}) = 1

\* The cells of a grid that hold EXIT
ExitCells(g, w, h) == {c \in (0..(w - 1)) \X (0..(h - 1)) : g[c[2]][c[1]] = EXIT}

\* C12: whenever the Game is between two handler calls (after construction, after
\* any moves, updates and cleanups) its grid holds exactly one EXIT cell, and that
\* cell is the recorded exit coordinate.
C12_OneExitCell ==
    game_pc = "play" => ExitCells(grid, cols, rows) = {exit_xy}

\* The player has walked onto the exit of a maze with more than one cell.
C12_Witness ==
    /\ game_pc = "play"
    /\ played /\ reached_exit
    /\ exit_xy # <<1, 1>>
    /\ <<player_x, player_y>> = exit_xy

\* C13: whenever the Game is between two handler calls the player stands on a cell
\* inside the grid that is FLOOR or EXIT, whatever directions the handlers passed
\* to _try_move.
C13_PlayerOnOpenCell ==
    game_pc = "play"
    => /\ 0 <= player_x /\ player_x < cols
       /\ 0 <= player_y /\ player_y < rows
       /\ grid[player_y][player_x] \in {FLOOR, EXIT}

\* The last _try_move call was aimed at a WALL cell or at a cell outside the grid,
\* away from the entrance.
C13_Witness ==
    /\ game_pc = "play"
    /\ moved.by # "none"
    /\ <<player_x, player_y>> # <<1, 1>>
    /\ LET nx == player_x + moved.d[1]
           ny == player_y + moved.d[2]
       IN \/ ~(0 <= nx /\ nx < cols /\ 0 <= ny /\ ny < rows)
          \/ grid[ny][nx] = WALL

\* The four unit directions
UnitDirections == {<<-1, 0>>, <<1, 0>>, <<0, -1>>, <<0, 1>>}

\* This step is a handler call of the playing Game that called _try_move.
TriedMove ==
    /\ game_pc = "play" /\ active
    /\ active'
    /\ moved'.by # "none"

\* C14: a _try_move call with a unit direction moves the player to the target cell
\* iff the target is inside the grid and FLOOR or EXIT, and otherwise leaves the
\* position and the solved flag as they were; a move onto EXIT sets the solved
\* flag, a move onto FLOOR leaves it; the grid is never changed and nothing is
\* raised.
C14_TryMove ==
    [][(TriedMove /\ moved'.d \in UnitDirections)
         => LET nx == player_x + moved'.d[1]
                ny == player_y + moved'.d[2]
                inside == 0 <= nx /\ nx < cols /\ 0 <= ny /\ ny < rows
            IN /\ game_pc' = "play"
               /\ grid' = grid
               /\ IF inside /\ grid[ny][nx] = EXIT
                  THEN <<player_x', player_y'>> = <<nx, ny>> /\ reached_exit'
                  ELSE IF inside /\ grid[ny][nx] = FLOOR
                  THEN /\ <<player_x', player_y'>> = <<nx, ny>>
                       /\ reached_exit' = reached_exit
                  ELSE /\ <<player_x', player_y'>> = <<player_x, player_y>>
                       /\ reached_exit' = reached_exit]_vars

\* The rate-limited update has just moved the player onto the exit.
C14_Witness ==
    /\ game_pc = "play"
    /\ moved.by = "update"
    /\ moved.d \in UnitDirections
    /\ <<player_x, player_y>> = exit_xy
    /\ reached_exit
    /\ exit_xy # <<1, 1>>

\* C15: the player's position changes only in an update whose frame time brings
\* the time accumulated in move_timer up to MOVE_DELAY, and that update puts
\* move_timer back to zero; so at least MOVE_DELAY of frame time lies between two
\* changes of the position.
C15_MovesAreRateLimited ==
    [][(game_pc = "play" /\ game_pc' = "play"
          /\ <<player_x', player_y'>> # <<player_x, player_y>>)
         => /\ moved'.by = "update"
            /\ move_timer + moved'.dt >= MOVE_DELAY
            /\ move_timer' = 0]_vars

\* C16: whenever the Game becomes the manager's current scene it is as
\* _reset_state leaves it and no input handler has touched it since: one EXIT cell
\* at the recorded exit, the player on (1,1), the solved flag false and move_timer
\* zero.
C16_FreshOnEntry ==
    [][(~active /\ active')
         => /\ game_pc' = "play"
            /\ ~played'
            /\ moved' = NoMove
            /\ ExitCells(grid', cols', rows') = {exit_xy'}
            /\ <<player_x', player_y'>> = <<1, 1>>
            /\ ~reached_exit'
            /\ move_timer' = 0]_vars

\* The Game has just become current with a maze of more than one cell.
C16_Witness ==
    /\ game_pc = "play"
    /\ active /\ ~played
    /\ cols = 7 /\ rows = 5
    /\ exit_xy # <<1, 1>>

\* All cells of a w x h grid
Cells(w, h) == (0..(w - 1)) \X (0..(h - 1))

\* Sum of the directions the frames of a carve call stack have left to try
RECURSIVE TodoLeft(_)
TodoLeft(st) ==
    IF st = <<>> THEN 0 ELSE Cardinality(Head(st).todo) + TodoLeft(Tail(st))

\* The loop iterations and returns the frames now on carve's stack have left
StackMeasure == TodoLeft(stack) + Len(stack)

\* A bound on the loop iterations and returns carve has left: a WALL cell that is
\* carved brings a frame of five more
CarveMeasure ==
    8 * Cardinality({c \in Cells(cols, rows) : grid[c[2]][c[1]] = WALL}) + StackMeasure

\* A bound on the iterations the while loop of _find_exit has left
SearchMeasure ==
    5 * Cardinality({c \in Cells(cols, rows) : grid[c[2]][c[1]] = FLOOR} \ visited)
      + Len(queue)

\* A step of _reset_state
ResetStep ==
    \/ GenerateMaze
    \/ \E d \in CarveDirections : Carve(d)
    \/ CarveReturn
    \/ FindExitStep
    \/ FindExitReturn

\* Each step of carve turns two WALL cells (the target and the passage to it) into
\* FLOOR or leaves the maze alone, and brings CarveMeasure down.
CarveStepBounded ==
    (game_pc = "carve" /\ game_pc' = "carve")
    => IF grid' = grid
       THEN StackMeasure' < StackMeasure
       ELSE /\ CarveMeasure' < CarveMeasure
            /\ LET changed ==
                     {c \in Cells(cols, rows) : grid'[c[2]][c[1]] # grid[c[2]][c[1]]}
               IN /\ Cardinality(changed) = 2
                  /\ \A c \in changed :
                       grid[c[2]][c[1]] = WALL /\ grid'[c[2]][c[1]] = FLOOR

\* Each iteration of _find_exit's loop enqueues only cells that were never
\* enqueued before, each once, and brings SearchMeasure down.
SearchStepBounded ==
    (game_pc = "find_exit" /\ game_pc' = "find_exit")
    => /\ SearchMeasure' < SearchMeasure
       /\ LET added == SubSeq(queue', Len(queue), Len(queue'))
          IN /\ SubSeq(queue', 1, Len(queue) - 1) = Tail(queue)
             /\ {added[i].cell : i \in 1..Len(added)} = visited' \ visited
             /\ Len(added) = Cardinality(visited' \ visited)
             /\ visited \subseteq visited'

\* C17: _generate_maze and _find_exit terminate for every grid size and every
\* outcome of the shuffles: while _reset_state runs a step is always possible, and
\* every step brings a non-negative measure down; each carve turns WALL cells into
\* FLOOR, so no cell is carved twice, and the search enqueues each cell at most
\* once.
C17_GenerationTerminates ==
    /\ [](game_pc \in {"reset", "carve", "find_exit"} => ENABLED ResetStep)
    /\ [][CarveStepBounded /\ SearchStepBounded]_vars

\* A maze with a junction has been carved and searched to its end.
C17_Witness ==
    /\ game_pc = "play"
    /\ cols = 7 /\ rows = 5
    /\ Cardinality(OpenCells(grid, cols, rows)) = 11
    /\ \E c \in OpenCells(grid, cols, rows) :
         Cardinality({b \in OpenCells(grid, cols, rows) : Adjacent(b, c)}) = 3

\* The grid has no interior cell, or no cell two steps from the entrance (1,1) that
\* carve may open.
Degenerate(w, h) == w < 3 \/ h < 3 \/ (w < 5 /\ h < 5)

\* C18: on a degenerate grid _reset_state raises nothing, and it ends with (1,1) as
\* the only carved cell and as the exit.
C18_DegenerateMaze ==
    Degenerate(cols, rows)
    => /\ game_pc # "IndexError"
       /\ game_pc = "play"
            => /\ OpenCells(grid, cols, rows) = {<<1, 1>>}
               /\ exit_xy = <<1, 1>>
               /\ grid[1][1] = EXIT

\* From the manager's state, switch_to(b) and then go_back() return True and put
\* the current scene object and the history back.
RoundTrip(b) ==
    LET sw == switch_to(Manager, b)
        gb == go_back(sw.m)
    IN /\ sw.raised = "none"
       /\ gb.raised = "none"
       /\ gb.ret = "True"
       /\ gb.m.current_scene = current_scene
       /\ gb.m.history = history

\* What this step's call may do to the length of the history: a switch_to that
\* succeeds and leaves a scene adds one, a go_back that returns True takes one
\* away, every other call leaves it.
HistoryCounts ==
    Len(calls') = Len(calls) + 1
    => Len(history') =
         IF /\ last'.op = "switch_to" /\ last'.raised = "none"
            /\ current_scene # NoScene
         THEN Len(history) + 1
         ELSE IF last'.op = "go_back" /\ last'.ret = "True"
         THEN Len(history) - 1
         ELSE Len(history)

\* C19: in every state with a current scene, switch_to(b) with a registered b
\* followed by go_back() returns True and restores the current scene object and
\* the history; and the length of the history is the number of successful
\* switch_to calls that left a scene minus the number of go_back calls that
\* returned True (it starts at 0 and every call changes it accordingly).
C19_GoBackUndoesSwitchTo ==
    /\ [](current_scene # NoScene => \A b \in DOMAIN registry : RoundTrip(b))
    /\ [][HistoryCounts]_vars

\* C20: in the application, after any clicks, the history holds at most one name,
\* it is empty exactly when the home page is the current scene and is ["home"]
\* otherwise, and no Back button has fallen back to switch_to("home").
C20_HistoryIsHomeOrEmpty ==
    /\ Len(history) <= 1
    /\ (history = <<>>) <=> (current_scene = instances["home"])
    /\ history # <<>> => history = <<"home">>
    /\ last.ret # "fallback"

\* Both the propose page and the maze have been visited and left by their Back
\* buttons.
C20_Witness ==
    /\ current_scene = instances["home"]
    /\ {"propose", "game"} \subseteq DOMAIN instances
    /\ \A i \in DOMAIN scenes : scenes[i].cleanup_calls >= 1
    /\ last.op = "handle_event"
    /\ app_pc = "events"

\* C21: in every maze generated with cols, rows >= 5 the EXIT cell is not the
\* entrance (1,1); so as long as no input handler has run since _reset_state the
\* player is not on the exit, and whenever the player stands on the EXIT cell the
\* solved flag is set.
C21_OnExitMeansSolved ==
    (game_pc = "play" /\ cols >= 5 /\ rows >= 5)
    => /\ exit_xy # <<1, 1>>
       /\ grid[1][1] # EXIT
       /\ ~played => <<player_x, player_y>> # exit_xy
       /\ grid[player_y][player_x] = EXIT => reached_exit

\* A K_1 key press has just put the player on the exit of a 5 x 5 maze.
C21_Witness ==
    /\ game_pc = "play"
    /\ cols = 5 /\ rows = 5
    /\ moved.by = "handle_event"
    /\ grid[player_y][player_x] = EXIT
    /\ reached_exit

====
